---- MODULE Spec2Model ----
(***************************************************************************)
(* Model of multilingual_rouge/rouge_scorer.py: the ROUGE scoring engine   *)
(* (n-gram overlap, LCS table and backtracking, summary-level union-LCS)   *)
(* and the RougeScorer.score dispatch loop.                                *)
(*                                                                         *)
(* Scores are Python floats in the source; here precision, recall and      *)
(* fmeasure are exact fractions <<numerator, denominator>> in lowest       *)
(* terms, so two scores are equal exactly when their values are equal.     *)
(* Positions stored in an LCS index list are 0-based as in the source;     *)
(* TLA+ sequences are 1-based, so the token at position p is seq[p + 1].   *)
(***************************************************************************)
EXTENDS Integers, Sequences, FiniteSets, TLC

VARIABLES
  pc,                 \* where the running function stands
  \* RougeScorer.score
  rouge_types,        \* self.rouge_types
  target,             \* the target text
  prediction,         \* the prediction text
  target_tokens,
  prediction_tokens,
  idx,                \* position in rouge_types of the loop of score
  result,             \* the dict being filled
  returned,           \* what the call gave back to its caller
  ran,                \* the scorers run so far by this call, in order
  \* _create_ngrams / _score_ngrams
  ngram_n, target_ngrams, prediction_ngrams, scores,
  \* lcs_ind: _lcs_table and _backtrack_norec
  ref, can, t, i, j, lcs,
  \* _summary_level_lcs
  ref_sent, can_sent, m, n, token_cnts_r, token_cnts_c, hits,
  r_idx,              \* position in ref_sent of the outer loop
  union,              \* the part of _union_lcs(r, can_sent) still to visit
  credited            \* per token, the hits credited to it so far

scoreVars == <<rouge_types, target, prediction, idx, result, returned, ran>>
tokenVars == <<target_tokens, prediction_tokens>>
ngramVars == <<ngram_n, target_ngrams, prediction_ngrams>>
lcsVars == <<ref, can, t, i, j, lcs>>
sumVars == <<ref_sent, can_sent, m, n, token_cnts_r, token_cnts_c, hits, r_idx,
             union, credited>>
vars == <<pc, scoreVars, tokenVars, ngramVars, scores, lcsVars, sumVars>>

\* ------------------------------------------------------------------ bounds
\* Longest token sequence given to the LCS and n-gram functions.
MaxLen == 3
\* Tokens the sequences are drawn from.
Tokens == {"a", "b", "c"}
\* Most sentences on either side of the summary-level scorer.
MaxSents == 2
\* Most tokens of the reference and candidate sentences together.
MaxSumTokens == 4
\* Tokens the sentences are drawn from.
SumTokens == {"a", "b"}
\* Longest list of rouge types a scorer is built with.
MaxTypes == 2
\* Most symbols of the target and prediction texts together.
MaxTextLen == 2
\* A text is a sequence of symbols: a word, the newline, or "." for
\* anything that separates words and yields no token.
NL == "\n"
Words == {"a", "b"}
TextSymbols == Words \cup {NL, "."}

SeqsUpTo(S, len) == UNION {[1..l -> S] : l \in 0..len}

Max(x, y) == IF x >= y THEN x ELSE y
Min(x, y) == IF x <= y THEN x ELSE y

Range(s) == {s[p] : p \in DOMAIN s}

\* ------------------------------------------------------------- scoring.py
RECURSIVE GCD(_, _)
GCD(x, y) == IF y = 0 THEN x ELSE GCD(y, x % y)

\* The value x / y of two non-negative integers, y > 0, in lowest terms.
Frac(x, y) == LET g == GCD(x, y) IN <<x \div g, y \div g>>

\* The outcome of a division by zero (no fraction has denominator 0).
ZeroDivisionError == <<1, 0>>

\* Python's true division of two non-negative integers.
Div(x, y) == IF y = 0 THEN ZeroDivisionError ELSE Frac(x, y)

\* scoring.fmeasure: 2PR / (P + R) when P + R > 0, else 0.
fmeasure(precision, recall) ==
  IF precision[2] = 0 \/ recall[2] = 0
    THEN ZeroDivisionError
    ELSE LET s == precision[1] * recall[2] + recall[1] * precision[2]
         IN IF s > 0 THEN Frac(2 * precision[1] * recall[1], s) ELSE Frac(0, 1)

\* scoring.Score
Score(p, r, f) == [precision |-> p, recall |-> r, fmeasure |-> f]

Zero == Frac(0, 1)
One == Frac(1, 1)

\* collections.Counter lookup: a missing key counts 0 and is not inserted.
CounterGet(c, key) == IF key \in DOMAIN c THEN c[key] ELSE 0

\* Counter[key] += d
CounterAdd(c, key, d) ==
  [x \in DOMAIN c \cup {key} |-> IF x = key THEN CounterGet(c, key) + d ELSE c[x]]

RECURSIVE SumOver(_, _)
SumOver(c, keys) ==
  IF keys = {} THEN 0
  ELSE LET x == CHOOSE x \in keys : TRUE IN c[x] + SumOver(c, keys \ {x})

\* sum(counter.values())
CounterTotal(c) == SumOver(c, DOMAIN c)

\* ------------------------------------------------------------ LCS table
\* LcsCell with the match case built on the neighbours instead of the diagonal.
LcsCellFromNeighbours(tab, rf, cn, ii, jj) ==
  IF rf[ii] = cn[jj]
    THEN Max(tab[ii - 1][jj], tab[ii][jj - 1]) + 1
    ELSE Max(tab[ii - 1][jj], tab[ii][jj - 1])

\* The body of the double loop of _lcs_table for cell (i, j), i, j >= 1.
LcsCell(tab, rf, cn, ii, jj) ==
  IF rf[ii] = cn[jj]
    THEN tab[ii - 1][jj - 1] + 1
    ELSE Max(tab[ii - 1][jj], tab[ii][jj - 1])

RECURSIVE LcsFill(_, _, _, _, _)
LcsFill(tab, rf, cn, ii, jj) ==
  IF ii > Len(rf) THEN tab
  ELSE IF jj > Len(cn) THEN LcsFill(tab, rf, cn, ii + 1, 1)
  ELSE LcsFill([tab EXCEPT ![ii][jj] = LcsCell(tab, rf, cn, ii, jj)],
               rf, cn, ii, jj + 1)

_lcs_table(rf, cn) ==
  LcsFill([ii \in 0..Len(rf) |-> [jj \in 0..Len(cn) |-> 0]], rf, cn, 1, 1)

\* ---------------------------------------------------------- backtracking
\* BacktrackStep with lcs.append(i - 1) in place of lcs.insert(0, i - 1).
BacktrackStepAppend(tab, rf, cn, ii, jj, acc) ==
  IF rf[ii] = cn[jj] THEN <<ii - 1, jj - 1, Append(acc, ii - 1)>>
  ELSE IF tab[ii][jj - 1] > tab[ii - 1][jj] THEN <<ii, jj - 1, acc>>
  ELSE <<ii - 1, jj, acc>>

\* BacktrackStep with >= in place of >: a tie moves left.
BacktrackStepTieLeft(tab, rf, cn, ii, jj, acc) ==
  IF rf[ii] = cn[jj] THEN <<ii - 1, jj - 1, <<ii - 1>> \o acc>>
  ELSE IF tab[ii][jj - 1] >= tab[ii - 1][jj] THEN <<ii, jj - 1, acc>>
  ELSE <<ii - 1, jj, acc>>

\* One iteration of the while loop of _backtrack_norec, taken at i, j > 0:
\* the new <<i, j, lcs>>.
BacktrackStep(tab, rf, cn, ii, jj, acc) ==
  IF rf[ii] = cn[jj] THEN <<ii - 1, jj - 1, <<ii - 1>> \o acc>>
  ELSE IF tab[ii][jj - 1] > tab[ii - 1][jj] THEN <<ii, jj - 1, acc>>
  ELSE <<ii - 1, jj, acc>>

RECURSIVE BacktrackLoop(_, _, _, _, _, _)
BacktrackLoop(tab, rf, cn, ii, jj, acc) ==
  IF ii > 0 /\ jj > 0
    THEN LET s == BacktrackStep(tab, rf, cn, ii, jj, acc)
         IN BacktrackLoop(tab, rf, cn, s[1], s[2], s[3])
    ELSE acc

_backtrack_norec(tab, rf, cn) == BacktrackLoop(tab, rf, cn, Len(rf), Len(cn), <<>>)

lcs_ind(rf, cn) == _backtrack_norec(_lcs_table(rf, cn), rf, cn)

\* sorted(list(s)) for a set of integers.
RECURSIVE Sorted(_)
Sorted(s) ==
  IF s = {} THEN <<>>
  ELSE LET lo == CHOOSE x \in s : \A y \in s : x <= y
       IN <<lo>> \o Sorted(s \ {lo})

_find_union(lcs_list) == Sorted(UNION {Range(lcs_list[q]) : q \in DOMAIN lcs_list})

_union_lcs(rf, c_list) ==
  LET lcs_list == [q \in DOMAIN c_list |-> lcs_ind(rf, c_list[q])]
      u == _find_union(lcs_list)
  IN [q \in DOMAIN u |-> rf[u[q] + 1]]

\* ------------------------------------------------------ sentence-level LCS
_score_lcs(target_toks, prediction_toks) ==
  IF target_toks = <<>> \/ prediction_toks = <<>>
    THEN Score(Zero, Zero, Zero)
    ELSE LET lcs_table == _lcs_table(target_toks, prediction_toks)
             lcs_length == lcs_table[Len(target_toks)][Len(prediction_toks)]
             p == Div(lcs_length, Len(prediction_toks))
             r == Div(lcs_length, Len(target_toks))
         IN Score(p, r, fmeasure(p, r))

\* ------------------------------------------------------------- n-grams
\* The loop of _create_ngrams from window start i (0-based) on:
\* for i in range(len(tokens) - n + 1): ngrams[tuple(tokens[i : i + n])] += 1
RECURSIVE NgramLoop(_, _, _, _)
NgramLoop(ngrams, toks, size, start) ==
  IF start >= Len(toks) - size + 1 THEN ngrams
  ELSE NgramLoop(CounterAdd(ngrams, SubSeq(toks, start + 1, start + size), 1),
                 toks, size, start + 1)

\* _create_ngrams with range(len(tokens) - n): the last window is left out.
_create_ngrams_one_short(toks, size) ==
  NgramLoop(<<>>, SubSeq(toks, 1, Len(toks) - 1), size, 0)

_create_ngrams(toks, size) == NgramLoop(<<>>, toks, size, 0)

RECURSIVE IntersectionLoop(_, _, _)
IntersectionLoop(target_ng, prediction_ng, keys) ==
  IF keys = {} THEN 0
  ELSE LET ngram == CHOOSE x \in keys : TRUE
       IN Min(target_ng[ngram], CounterGet(prediction_ng, ngram))
          + IntersectionLoop(target_ng, prediction_ng, keys \ {ngram})

intersection_ngrams_count(target_ng, prediction_ng) ==
  IntersectionLoop(target_ng, prediction_ng, DOMAIN target_ng)

_score_ngrams(target_ng, prediction_ng) ==
  LET inter == intersection_ngrams_count(target_ng, prediction_ng)
      p == Div(inter, Max(CounterTotal(prediction_ng), 1))
      r == Div(inter, Max(CounterTotal(target_ng), 1))
  IN Score(p, r, fmeasure(p, r))

\* ------------------------------------------------------ summary-level LCS
\* sum(map(len, sents))
RECURSIVE TotalLen(_)
TotalLen(sents) ==
  IF sents = <<>> THEN 0 ELSE Len(Head(sents)) + TotalLen(Tail(sents))

\* Counter.update(s) for a list of tokens s.
RECURSIVE CounterUpdate(_, _)
CounterUpdate(c, s) ==
  IF s = <<>> THEN c ELSE CounterUpdate(CounterAdd(c, Head(s), 1), Tail(s))

\* token_cnts: one Counter updated with every sentence of the list.
RECURSIVE TokenCounts(_, _)
TokenCounts(c, sents) ==
  IF sents = <<>> THEN c
  ELSE TokenCounts(CounterUpdate(c, Head(sents)), Tail(sents))

\* token_cnts counting each distinct token once, whatever its occurrences.
token_cnts_distinct(sents) ==
  [tok \in UNION {Range(sents[q]) : q \in DOMAIN sents} |-> 1]

\* The counters of _summary_level_lcs: token_cnts.update(s) for s in sents.
token_cnts(sents) == TokenCounts(<<>>, sents)

\* IsHit with "or" in place of "and".
IsHitEither(cnts_c, cnts_r, tok) ==
  CounterGet(cnts_c, tok) > 0 \/ CounterGet(cnts_r, tok) > 0

\* The test of the inner loop of _summary_level_lcs for token tok.
IsHit(cnts_c, cnts_r, tok) ==
  CounterGet(cnts_c, tok) > 0 /\ CounterGet(cnts_r, tok) > 0

\* HitStep without the test: hits += len(lcs), as the paper describes it.
HitStepUnguarded(cnts_c, cnts_r, h, tok) ==
  <<CounterAdd(cnts_c, tok, -1), CounterAdd(cnts_r, tok, -1), h + 1>>

\* The body of the inner loop for token tok: the new
\* <<token_cnts_c, token_cnts_r, hits>>.
HitStep(cnts_c, cnts_r, h, tok) ==
  IF IsHit(cnts_c, cnts_r, tok)
    THEN <<CounterAdd(cnts_c, tok, -1), CounterAdd(cnts_r, tok, -1), h + 1>>
    ELSE <<cnts_c, cnts_r, h>>

\* for t in lcs: ...
RECURSIVE HitLoop(_, _, _, _)
HitLoop(cnts_c, cnts_r, h, toks) ==
  IF toks = <<>> THEN <<cnts_c, cnts_r, h>>
  ELSE LET s == HitStep(cnts_c, cnts_r, h, Head(toks))
       IN HitLoop(s[1], s[2], s[3], Tail(toks))

\* for r in ref_sent: lcs = _union_lcs(r, can_sent); for t in lcs: ...
RECURSIVE RefLoop(_, _, _, _, _)
RefLoop(cnts_c, cnts_r, h, refs, cans) ==
  IF refs = <<>> THEN h
  ELSE LET s == HitLoop(cnts_c, cnts_r, h, _union_lcs(Head(refs), cans))
       IN RefLoop(s[1], s[2], s[3], Tail(refs), cans)

\* The Score returned once the loops have counted h hits.
SummaryScore(h, mm, nn) ==
  LET r == Div(h, mm)
      p == Div(h, nn)
  IN Score(p, r, fmeasure(p, r))

_summary_level_lcs(refs, cans) ==
  IF refs = <<>> \/ cans = <<>> THEN Score(Zero, Zero, Zero)
  ELSE LET mm == TotalLen(refs)
           nn == TotalLen(cans)
       IN IF nn = 0 \/ mm = 0 THEN Score(Zero, Zero, Zero)
          ELSE SummaryScore(RefLoop(token_cnts(cans), token_cnts(refs), 0, refs, cans),
                            mm, nn)

\* ================================================================ state
NoScore == Score(Zero, Zero, Zero)

ScoreIdle ==
  /\ rouge_types = <<>> /\ target = <<>> /\ prediction = <<>>
  /\ idx = 0 /\ result = <<>> /\ returned = <<>> /\ ran = <<>>
TokensIdle == target_tokens = <<>> /\ prediction_tokens = <<>>
NgramIdle == ngram_n = 0 /\ target_ngrams = <<>> /\ prediction_ngrams = <<>>
LcsIdle == ref = <<>> /\ can = <<>> /\ t = <<>> /\ i = 0 /\ j = 0 /\ lcs = <<>>
SumIdle ==
  /\ ref_sent = <<>> /\ can_sent = <<>> /\ m = 0 /\ n = 0
  /\ token_cnts_r = <<>> /\ token_cnts_c = <<>> /\ hits = 0
  /\ r_idx = 0 /\ union = <<>> /\ credited = <<>>

\* ---------------------------------------------- lcs_ind, one step at a time
InitLcs ==
  /\ pc = "lcs_ind"
  /\ ref \in SeqsUpTo(Tokens, MaxLen)
  /\ can \in SeqsUpTo(Tokens, MaxLen)
  /\ t = <<>> /\ i = 0 /\ j = 0 /\ lcs = <<>>
  /\ scores = NoScore
  /\ ScoreIdle /\ TokensIdle /\ NgramIdle /\ SumIdle

\* t = _lcs_table(ref, can)
LcsTableCall ==
  /\ pc = "lcs_ind"
  /\ t' = _lcs_table(ref, can)
  /\ pc' = "table_built"
  /\ UNCHANGED <<ref, can, i, j, lcs, scores, scoreVars, tokenVars, ngramVars, sumVars>>

\* _backtrack_norec(t, ref, can): i = len(ref); j = len(can); lcs = []
BacktrackEnter ==
  /\ pc = "table_built"
  /\ i' = Len(ref) /\ j' = Len(can) /\ lcs' = <<>>
  /\ pc' = "backtrack"
  /\ UNCHANGED <<ref, can, t, scores, scoreVars, tokenVars, ngramVars, sumVars>>

\* one iteration of: while i > 0 and j > 0
BacktrackIter ==
  /\ pc = "backtrack"
  /\ i > 0 /\ j > 0
  /\ LET s == BacktrackStep(t, ref, can, i, j, lcs)
     IN i' = s[1] /\ j' = s[2] /\ lcs' = s[3]
  /\ UNCHANGED <<pc, ref, can, t, scores, scoreVars, tokenVars, ngramVars, sumVars>>

\* the loop condition fails: return lcs
BacktrackReturn ==
  /\ pc = "backtrack"
  /\ ~(i > 0 /\ j > 0)
  /\ pc' = "lcs_done"
  /\ UNCHANGED <<lcsVars, scores, scoreVars, tokenVars, ngramVars, sumVars>>

\* _score_lcs(ref, can) on the same two sequences
ScoreLcsCall ==
  /\ pc = "lcs_done"
  /\ scores' = _score_lcs(ref, can)
  /\ pc' = "lcs_scored"
  /\ UNCHANGED <<lcsVars, scoreVars, tokenVars, ngramVars, sumVars>>

NextLcs ==
  \/ LcsTableCall
  \/ BacktrackEnter
  \/ BacktrackIter
  \/ BacktrackReturn
  \/ ScoreLcsCall

SpecLcs == InitLcs /\ [][NextLcs]_vars

\* ------------------------------------------------- reference definitions
\* The tokens of s at the positions of the set P (1-based), in order.
Pick(s, P) == LET ord == Sorted(P) IN [q \in DOMAIN ord |-> s[ord[q]]]

\* All common subsequences of a and b, each as the positions it takes in a.
CommonSubsequences(a, b) ==
  {P \in SUBSET (1..Len(a)) : \E Q \in SUBSET (1..Len(b)) : Pick(a, P) = Pick(b, Q)}

\* The length of a longest common subsequence, from the definition.
LongestCommon(a, b) ==
  LET lens == {Cardinality(P) : P \in CommonSubsequences(a, b)}
  IN CHOOSE l \in lens : \A l2 \in lens : l2 <= l

Prefix(s, len) == SubSeq(s, 1, len)

\* C4: every cell table[i][j] built by _lcs_table is the length of a longest
\* common subsequence of the first i tokens of ref and the first j tokens of
\* can; the border row and column are 0 and table[R][C] is the LCS length of
\* the two whole sequences.
LcsTableIsLcsLength ==
  pc = "table_built" =>
    /\ DOMAIN t = 0..Len(ref)
    /\ \A ii \in 0..Len(ref) :
         /\ DOMAIN t[ii] = 0..Len(can)
         /\ \A jj \in 0..Len(can) :
              /\ t[ii][jj] = LongestCommon(Prefix(ref, ii), Prefix(can, jj))
              /\ (ii = 0 \/ jj = 0) => t[ii][jj] = 0
    /\ t[Len(ref)][Len(can)] = LongestCommon(ref, can)

LcsTableWitness ==
  /\ pc = "table_built"
  /\ Len(ref) = MaxLen /\ Len(can) = MaxLen
  /\ ref # can
  /\ t[Len(ref)][Len(can)] = 2

\* C5: lcs_ind returns strictly ascending valid positions into ref whose
\* tokens form a common subsequence of ref and can, as many as table[R][C].
LcsIndIsOneLcs ==
  pc = "lcs_done" =>
    /\ \A q \in DOMAIN lcs : lcs[q] \in 0..(Len(ref) - 1)
    /\ \A q \in 1..(Len(lcs) - 1) : lcs[q] < lcs[q + 1]
    /\ \E Q \in SUBSET (1..Len(can)) :
         Pick(can, Q) = [q \in DOMAIN lcs |-> ref[lcs[q] + 1]]
    /\ Len(lcs) = t[Len(ref)][Len(can)]

LcsIndWitness ==
  /\ pc = "lcs_done"
  /\ Len(lcs) = 2
  /\ Len(ref) = 3
  /\ lcs = <<0, 2>>

\* C9: at a step of the walk with i > 0, j > 0: equal tokens record i - 1 and
\* move diagonally; differing tokens move to the neighbour (i-1, j) or
\* (i, j-1) with the larger table value, up (i decremented) on a tie, and
\* leave lcs alone. The walk ends as soon as i = 0 or j = 0.
BacktrackMoves ==
  [][pc = "backtrack" =>
       IF i > 0 /\ j > 0
         THEN /\ pc' = "backtrack"
              /\ ref[i] = can[j] =>
                   i' = i - 1 /\ j' = j - 1 /\ lcs' = <<i - 1>> \o lcs
              /\ ref[i] # can[j] =>
                   /\ lcs' = lcs
                   /\ t[i'][j'] = Max(t[i - 1][j], t[i][j - 1])
                   /\ t[i][j - 1] > t[i - 1][j] => i' = i /\ j' = j - 1
                   /\ t[i][j - 1] < t[i - 1][j] => i' = i - 1 /\ j' = j
                   /\ t[i][j - 1] = t[i - 1][j] => i' = i - 1 /\ j' = j
         ELSE pc' = "lcs_done" /\ lcs' = lcs]_vars

\* The walk has just moved up from (R, C) on a tie of the two neighbours.
BacktrackTieWitness ==
  /\ pc = "backtrack"
  /\ Len(ref) > 0 /\ Len(can) > 1
  /\ i = Len(ref) - 1 /\ j = Len(can) /\ lcs = <<>>
  /\ ref[i + 1] # can[j]
  /\ t[i + 1][j - 1] = t[i][j]
  /\ t[i][j] > 0

\* --------------------------------- _create_ngrams and _score_ngrams
InitNgram ==
  /\ pc = "ngrams"
  /\ target_tokens \in SeqsUpTo(Tokens, MaxLen)
  /\ prediction_tokens \in SeqsUpTo(Tokens, MaxLen)
  /\ ngram_n \in 1..(MaxLen + 1)
  /\ target_ngrams = <<>> /\ prediction_ngrams = <<>>
  /\ scores = NoScore
  /\ ScoreIdle /\ LcsIdle /\ SumIdle

\* target_ngrams = _create_ngrams(target_tokens, n), and the prediction's
CreateNgramsCall ==
  /\ pc = "ngrams"
  /\ target_ngrams' = _create_ngrams(target_tokens, ngram_n)
  /\ prediction_ngrams' = _create_ngrams(prediction_tokens, ngram_n)
  /\ pc' = "ngrams_created"
  /\ UNCHANGED <<ngram_n, scores, scoreVars, tokenVars, lcsVars, sumVars>>

\* scores = _score_ngrams(target_ngrams, prediction_ngrams)
ScoreNgramsCall ==
  /\ pc = "ngrams_created"
  /\ scores' = _score_ngrams(target_ngrams, prediction_ngrams)
  /\ pc' = "ngrams_scored"
  /\ UNCHANGED <<ngramVars, scoreVars, tokenVars, lcsVars, sumVars>>

NextNgram == CreateNgramsCall \/ ScoreNgramsCall

SpecNgram == InitNgram /\ [][NextNgram]_vars

\* C8: scoring the n-grams of a sequence A against themselves, 1 <= n <= len(A),
\* gives intersection = target count = prediction count = len(A) - n + 1 and
\* precision = recall = fmeasure = 1.
SelfNgramScoreIsOne ==
  (/\ pc = "ngrams_scored"
   /\ target_tokens = prediction_tokens
   /\ ngram_n <= Len(target_tokens)) =>
    /\ intersection_ngrams_count(target_ngrams, prediction_ngrams)
         = Len(target_tokens) - ngram_n + 1
    /\ CounterTotal(target_ngrams) = Len(target_tokens) - ngram_n + 1
    /\ CounterTotal(prediction_ngrams) = Len(target_tokens) - ngram_n + 1
    /\ scores = Score(One, One, One)

\* A sequence with a repeated bigram scored against itself.
SelfNgramWitness ==
  /\ pc = "ngrams_scored"
  /\ target_tokens = prediction_tokens
  /\ Len(target_tokens) = 3
  /\ ngram_n = 2
  /\ target_tokens[1] = target_tokens[2] /\ target_tokens[2] = target_tokens[3]
  /\ scores = Score(One, One, One)

\* ------------------------------ _summary_level_lcs, one step at a time
\* Lists of at most MaxSents sentences with at most total tokens in all (a
\* sentence may hold no token).
Sides(total) ==
  {sl \in SeqsUpTo(SeqsUpTo(SumTokens, total), MaxSents) : TotalLen(sl) <= total}

InitSum ==
  /\ pc = "summary"
  /\ ref_sent \in Sides(MaxSumTokens)
  /\ can_sent \in Sides(MaxSumTokens - TotalLen(ref_sent))
  /\ m = 0 /\ n = 0
  /\ token_cnts_r = <<>> /\ token_cnts_c = <<>> /\ hits = 0
  /\ r_idx = 0 /\ union = <<>> /\ credited = <<>>
  /\ scores = NoScore
  /\ ScoreIdle /\ TokensIdle /\ NgramIdle /\ LcsIdle

\* if not ref_sent or not can_sent: return Score(0, 0, 0)
SummaryEmptyList ==
  /\ pc = "summary"
  /\ ref_sent = <<>> \/ can_sent = <<>>
  /\ scores' = Score(Zero, Zero, Zero)
  /\ pc' = "summary_done"
  /\ UNCHANGED <<sumVars, scoreVars, tokenVars, ngramVars, lcsVars>>

\* m = sum(map(len, ref_sent)); n = sum(map(len, can_sent))
SummaryCount ==
  /\ pc = "summary"
  /\ ref_sent # <<>> /\ can_sent # <<>>
  /\ m' = TotalLen(ref_sent)
  /\ n' = TotalLen(can_sent)
  /\ pc' = "counted"
  /\ UNCHANGED <<ref_sent, can_sent, token_cnts_r, token_cnts_c, hits, r_idx, union,
                 credited, scores, scoreVars, tokenVars, ngramVars, lcsVars>>

\* if not n or not m: return Score(0, 0, 0)
SummaryNoTokens ==
  /\ pc = "counted"
  /\ n = 0 \/ m = 0
  /\ scores' = Score(Zero, Zero, Zero)
  /\ pc' = "summary_done"
  /\ UNCHANGED <<sumVars, scoreVars, tokenVars, ngramVars, lcsVars>>

\* token_cnts_r, token_cnts_c filled from all sentences; hits = 0
SummaryCounters ==
  /\ pc = "counted"
  /\ n # 0 /\ m # 0
  /\ token_cnts_r' = token_cnts(ref_sent)
  /\ token_cnts_c' = token_cnts(can_sent)
  /\ hits' = 0
  /\ r_idx' = 1
  /\ pc' = "ref_loop"
  /\ UNCHANGED <<ref_sent, can_sent, m, n, union, credited, scores,
                 scoreVars, tokenVars, ngramVars, lcsVars>>

\* for r in ref_sent: lcs = _union_lcs(r, can_sent)
SummaryUnionLcs ==
  /\ pc = "ref_loop"
  /\ r_idx <= Len(ref_sent)
  /\ union' = _union_lcs(ref_sent[r_idx], can_sent)
  /\ pc' = "token_loop"
  /\ UNCHANGED <<ref_sent, can_sent, m, n, token_cnts_r, token_cnts_c, hits, r_idx,
                 credited, scores, scoreVars, tokenVars, ngramVars, lcsVars>>

\* for t in lcs: the body, for the next token of the union LCS
SummaryToken ==
  /\ pc = "token_loop"
  /\ union # <<>>
  /\ LET tok == Head(union)
         s == HitStep(token_cnts_c, token_cnts_r, hits, tok)
     IN /\ token_cnts_c' = s[1]
        /\ token_cnts_r' = s[2]
        /\ hits' = s[3]
        /\ credited' = IF s[3] > hits THEN CounterAdd(credited, tok, 1) ELSE credited
  /\ union' = Tail(union)
  /\ UNCHANGED <<pc, ref_sent, can_sent, m, n, r_idx, scores,
                 scoreVars, tokenVars, ngramVars, lcsVars>>

\* the union LCS of this reference sentence is exhausted
SummaryNextRef ==
  /\ pc = "token_loop"
  /\ union = <<>>
  /\ r_idx' = r_idx + 1
  /\ pc' = "ref_loop"
  /\ UNCHANGED <<ref_sent, can_sent, m, n, token_cnts_r, token_cnts_c, hits, union,
                 credited, scores, scoreVars, tokenVars, ngramVars, lcsVars>>

\* recall = hits / m; precision = hits / n; return Score(...)
SummaryReturn ==
  /\ pc = "ref_loop"
  /\ r_idx > Len(ref_sent)
  /\ scores' = SummaryScore(hits, m, n)
  /\ pc' = "summary_done"
  /\ UNCHANGED <<sumVars, scoreVars, tokenVars, ngramVars, lcsVars>>

NextSum ==
  \/ SummaryEmptyList
  \/ SummaryCount
  \/ SummaryNoTokens
  \/ SummaryCounters
  \/ SummaryUnionLcs
  \/ SummaryToken
  \/ SummaryNextRef
  \/ SummaryReturn

SpecSum == InitSum /\ [][NextSum]_vars

\* The occurrences of token tok in all sentences of a list, from the text.
RECURSIVE Occurrences(_, _)
Occurrences(sents, tok) ==
  IF sents = <<>> THEN 0
  ELSE Cardinality({p \in DOMAIN Head(sents) : Head(sents)[p] = tok})
       + Occurrences(Tail(sents), tok)

InLoops == pc \in {"ref_loop", "token_loop"}

\* C6: the hits credited to a token never exceed its occurrences in the
\* reference sentences nor in the candidate sentences; the two budgets are
\* what is left of those occurrences and never negative; a union-LCS token is
\* a hit exactly when both its budgets are > 0, and a hit takes 1 from both.
BudgetsHold ==
  \A tok \in SumTokens :
    /\ CounterGet(credited, tok) <= Min(Occurrences(ref_sent, tok),
                                        Occurrences(can_sent, tok))
    /\ CounterGet(token_cnts_r, tok)
         = Occurrences(ref_sent, tok) - CounterGet(credited, tok)
    /\ CounterGet(token_cnts_c, tok)
         = Occurrences(can_sent, tok) - CounterGet(credited, tok)
    /\ CounterGet(token_cnts_r, tok) >= 0
    /\ CounterGet(token_cnts_c, tok) >= 0

HitsWithinTokenBudgets ==
  [][/\ InLoops' => BudgetsHold'
     /\ (pc = "token_loop" /\ union # <<>>) =>
          LET tok == Head(union) IN
            IF CounterGet(token_cnts_c, tok) > 0 /\ CounterGet(token_cnts_r, tok) > 0
              THEN /\ hits' = hits + 1
                   /\ CounterGet(credited', tok) = CounterGet(credited, tok) + 1
                   /\ CounterGet(token_cnts_c', tok) = CounterGet(token_cnts_c, tok) - 1
                   /\ CounterGet(token_cnts_r', tok) = CounterGet(token_cnts_r, tok) - 1
              ELSE /\ hits' = hits
                   /\ credited' = credited
                   /\ token_cnts_c' = token_cnts_c
                   /\ token_cnts_r' = token_cnts_r]_vars

\* A token already credited is met again in a later reference sentence's
\* union LCS with its candidate budget used up.
BudgetExhaustedWitness ==
  /\ pc = "token_loop"
  /\ r_idx = 2
  /\ union # <<>>
  /\ CounterGet(credited, Head(union)) >= 1
  /\ CounterGet(token_cnts_c, Head(union)) = 0
  /\ CounterGet(token_cnts_r, Head(union)) > 0

\* C7: with non-zero token totals m and n, hits <= min(m, n) throughout the
\* accumulation loop and at its end, so precision and recall never exceed 1.
HitsAtMostMinTotals ==
  /\ InLoops => hits <= Min(m, n)
  /\ (pc = "summary_done" /\ m # 0 /\ n # 0) =>
       /\ hits <= Min(m, n)
       /\ scores.precision = Frac(hits, n)
       /\ scores.recall = Frac(hits, m)
       /\ scores.precision[1] <= scores.precision[2]
       /\ scores.recall[1] <= scores.recall[2]

\* Two reference sentences claim the same single candidate token.
HitsCappedWitness ==
  /\ pc = "summary_done"
  /\ Len(ref_sent) = 2
  /\ hits = 1 /\ n = 1 /\ m = 3
  /\ Len(_union_lcs(ref_sent[1], can_sent)) = 1
  /\ Len(_union_lcs(ref_sent[2], can_sent)) = 1

\* C10: one non-empty reference sentence A against one non-empty candidate
\* sentence B: the hits are the LCS length of A and B and the score is that
\* of the sentence-level scorer.
SingleSentenceSummaryIsScoreLcs ==
  (/\ pc = "summary_done"
   /\ Len(ref_sent) = 1 /\ Len(can_sent) = 1
   /\ ref_sent[1] # <<>> /\ can_sent[1] # <<>>) =>
    /\ hits = _lcs_table(ref_sent[1], can_sent[1])[Len(ref_sent[1])][Len(can_sent[1])]
    /\ hits = LongestCommon(ref_sent[1], can_sent[1])
    /\ scores = _score_lcs(ref_sent[1], can_sent[1])

\* A repeated token that the LCS takes twice.
SingleSentenceWitness ==
  /\ pc = "summary_done"
  /\ Len(ref_sent) = 1 /\ Len(can_sent) = 1
  /\ hits = 2
  /\ \E tok \in SumTokens : CounterGet(credited, tok) = 2

\* ====================================================== RougeScorer.score
Name(suffix) == <<"r", "o", "u", "g", "e">> \o suffix

rougeL == Name(<<"L">>)
rougeLsum == Name(<<"L", "s", "u", "m">>)
rouge0 == Name(<<"0">>)
rouge1 == Name(<<"1">>)
rouge2 == Name(<<"2">>)
rouge10 == Name(<<"1", "0">>)
rougeX == Name(<<"X">>)
rouge1_newline == Name(<<"1", NL>>)

\* The rouge types a scorer may be built with here.
RougeTypeNames ==
  {rougeL, rougeLsum, rouge0, rouge1, rouge2, rouge10, rougeX, rouge1_newline}

Digits == {"0", "1", "2", "3", "4", "5", "6", "7", "8", "9"}

DigitValue(c) ==
  CASE c = "0" -> 0 [] c = "1" -> 1 [] c = "2" -> 2 [] c = "3" -> 3 [] c = "4" -> 4
    [] c = "5" -> 5 [] c = "6" -> 6 [] c = "7" -> 7 [] c = "8" -> 8 [] c = "9" -> 9

\* re.match(r"rouge[0-9]$", rouge_type): "rouge", one digit, then the end
\* of the string ($ also matches before a newline that ends the string).
MatchesRougeDigit(rouge_type) ==
  /\ Len(rouge_type) >= 6
  /\ SubSeq(rouge_type, 1, 5) = Name(<<>>)
  /\ rouge_type[6] \in Digits
  /\ \/ Len(rouge_type) = 6
     \/ Len(rouge_type) = 7 /\ rouge_type[7] = NL

\* int(s) for a string of decimal digits, a newline at its end ignored.
RECURSIVE ParseInt(_)
ParseInt(s) ==
  IF s = <<>> THEN 0
  ELSE IF s[Len(s)] = NL THEN ParseInt(SubSeq(s, 1, Len(s) - 1))
  ELSE 10 * ParseInt(SubSeq(s, 1, Len(s) - 1)) + DigitValue(s[Len(s)])

\* n = int(rouge_type[5:])
NgramSize(rouge_type) == ParseInt(SubSeq(rouge_type, 6, Len(rouge_type)))

\* tokenization_wrapper.tokenize: the words of the text, in order.
IsWord(c) == c \in Words
tokenize(text) == SelectSeq(text, IsWord)

\* text.split("\n")
RECURSIVE SplitLoop(_, _)
SplitLoop(text, cur) ==
  IF text = <<>> THEN <<cur>>
  ELSE IF Head(text) = NL THEN <<cur>> \o SplitLoop(Tail(text), <<>>)
  ELSE SplitLoop(Tail(text), Append(cur, Head(text)))

NonEmpty(x) == Len(x) > 0

\* get_sents: the newline-separated pieces of the text that are not empty.
get_sents(text) == SelectSeq(SplitLoop(text, <<>>), NonEmpty)

\* [tokenize.tokenize(s, self._stemmer) for s in get_sents(text)]
TokensList(text) ==
  LET sents == get_sents(text) IN [q \in DOMAIN sents |-> tokenize(sents[q])]

\* result[rouge_type] = scores
DictSet(d, key, val) ==
  [x \in DOMAIN d \cup {key} |-> IF x = key THEN val ELSE d[x]]

NotReturned == <<>>

InitScore ==
  /\ pc = "score"
  /\ rouge_types \in SeqsUpTo(RougeTypeNames, MaxTypes)
  /\ target \in SeqsUpTo(TextSymbols, MaxTextLen)
  /\ prediction \in SeqsUpTo(TextSymbols, MaxTextLen)
  /\ Len(target) + Len(prediction) <= MaxTextLen
  /\ target_tokens = <<>> /\ prediction_tokens = <<>>
  /\ idx = 0 /\ result = <<>> /\ returned = NotReturned /\ ran = <<>>
  /\ scores = NoScore
  /\ NgramIdle /\ LcsIdle /\ SumIdle

\* target_tokens, prediction_tokens = tokenize(...); result = {}
ScoreTokenize ==
  /\ pc = "score"
  /\ target_tokens' = tokenize(target)
  /\ prediction_tokens' = tokenize(prediction)
  /\ result' = <<>>
  /\ idx' = 1
  /\ pc' = "dispatch"
  /\ UNCHANGED <<rouge_types, target, prediction, returned, ran, scores,
                 ngramVars, lcsVars, sumVars>>

AtRougeType == pc = "dispatch" /\ idx <= Len(rouge_types)

\* The end of one iteration of the loop that computed sc with scorer kind.
Store(sc, kind) ==
  /\ scores' = sc
  /\ result' = DictSet(result, rouge_types[idx], sc)
  /\ ran' = Append(ran, kind)
  /\ idx' = idx + 1
  /\ UNCHANGED <<pc, rouge_types, target, prediction, returned, tokenVars,
                 ngramVars, lcsVars, sumVars>>

\* if rouge_type == "rougeL"
ScoreRougeL ==
  /\ AtRougeType
  /\ rouge_types[idx] = rougeL
  /\ Store(_score_lcs(target_tokens, prediction_tokens), "rougeL")

\* elif rouge_type == "rougeLsum"
ScoreRougeLsum ==
  /\ AtRougeType
  /\ rouge_types[idx] # rougeL
  /\ rouge_types[idx] = rougeLsum
  /\ Store(_summary_level_lcs(TokensList(target), TokensList(prediction)), "rougeLsum")

\* elif re.match(r"rouge[0-9]$", rouge_type), with n > 0
ScoreRougeN ==
  /\ AtRougeType
  /\ rouge_types[idx] \notin {rougeL, rougeLsum}
  /\ MatchesRougeDigit(rouge_types[idx])
  /\ NgramSize(rouge_types[idx]) > 0
  /\ Store(_score_ngrams(_create_ngrams(target_tokens, NgramSize(rouge_types[idx])),
                         _create_ngrams(prediction_tokens, NgramSize(rouge_types[idx]))),
           "rougeN")

\* raise ValueError: the call ends without a result
Raise ==
  /\ pc' = "raised"
  /\ UNCHANGED <<scoreVars, tokenVars, scores, ngramVars, lcsVars, sumVars>>

\* if n <= 0: raise ValueError("rougen requires positive n")
ScoreRaiseNonPositive ==
  /\ AtRougeType
  /\ rouge_types[idx] \notin {rougeL, rougeLsum}
  /\ MatchesRougeDigit(rouge_types[idx])
  /\ NgramSize(rouge_types[idx]) <= 0
  /\ Raise

\* ScoreRaiseInvalid that passes over the name instead of raising.
ScoreSkipInvalid ==
  /\ AtRougeType
  /\ rouge_types[idx] \notin {rougeL, rougeLsum}
  /\ ~MatchesRougeDigit(rouge_types[idx])
  /\ idx' = idx + 1
  /\ UNCHANGED <<pc, rouge_types, target, prediction, result, returned, ran,
                 tokenVars, scores, ngramVars, lcsVars, sumVars>>

\* else: raise ValueError("Invalid rouge type")
ScoreRaiseInvalid ==
  /\ AtRougeType
  /\ rouge_types[idx] \notin {rougeL, rougeLsum}
  /\ ~MatchesRougeDigit(rouge_types[idx])
  /\ Raise

\* return result
ScoreReturn ==
  /\ pc = "dispatch"
  /\ idx > Len(rouge_types)
  /\ returned' = <<result>>
  /\ pc' = "returned"
  /\ UNCHANGED <<rouge_types, target, prediction, idx, result, ran, tokenVars,
                 scores, ngramVars, lcsVars, sumVars>>

Next ==
  \/ ScoreTokenize
  \/ ScoreRougeL
  \/ ScoreRougeLsum
  \/ ScoreRougeN
  \/ ScoreRaiseNonPositive
  \/ ScoreRaiseInvalid
  \/ ScoreReturn

Init == InitScore

Spec == Init /\ [][Next]_vars

\* ------------------------------------------- what the names ask for
AllDigits(s) == s # <<>> /\ \A p \in DOMAIN s : s[p] \in Digits

\* "rouge" followed by the decimal digits of a positive integer.
NamesPositiveN(rouge_type) ==
  /\ Len(rouge_type) > 5
  /\ SubSeq(rouge_type, 1, 5) = Name(<<>>)
  /\ AllDigits(SubSeq(rouge_type, 6, Len(rouge_type)))
  /\ ParseInt(SubSeq(rouge_type, 6, Len(rouge_type))) >= 1

\* An unrecognized name, or "rouge" + N with N <= 0.
InvalidName(rouge_type) ==
  rouge_type \notin {rougeL, rougeLsum} /\ ~NamesPositiveN(rouge_type)

InvalidPositions == {q \in DOMAIN rouge_types : InvalidName(rouge_types[q])}

\* "rouge", one digit and a final newline: not a name of a variant, yet the
\* pattern of score takes it for "rouge" + that digit.
DigitThenNewline(rouge_type) ==
  /\ Len(rouge_type) = 7
  /\ SubSeq(rouge_type, 1, 5) = Name(<<>>)
  /\ rouge_type[6] \in Digits
  /\ rouge_type[7] = NL

\* The invalid names other than those.
PlainInvalidPositions ==
  {q \in InvalidPositions : ~DigitThenNewline(rouge_types[q])}

FirstInvalid ==
  CHOOSE q \in PlainInvalidPositions : \A q2 \in PlainInvalidPositions : q <= q2

PositiveNAccepted ==
  /\ pc = "raised" => ~NamesPositiveN(rouge_types[idx])
  /\ pc = "returned" =>
       \A q \in DOMAIN rouge_types :
         NamesPositiveN(rouge_types[q]) =>
           /\ rouge_types[q] \in DOMAIN returned[1]
           /\ returned[1][rouge_types[q]]
                = _score_ngrams(_create_ngrams(target_tokens, NgramSize(rouge_types[q])),
                                _create_ngrams(prediction_tokens, NgramSize(rouge_types[q])))

\* C3: with an empty target or prediction token sequence (for rougeLsum, no
\* sentence or no token on a side), every requested valid variant gets
\* Score(0, 0, 0) and no error occurs.
EmptyInput == pc # "score" /\ (target_tokens = <<>> \/ prediction_tokens = <<>>)

AllNamesValid == InvalidPositions = {}

\* What the scorers do on empty input, whichever names are asked for: every
\* Score stored is Score(0, 0, 0) and no division by zero has occurred.
EmptyInputStoresZero ==
  EmptyInput => \A key \in DOMAIN result : result[key] = Score(Zero, Zero, Zero)

EmptyInputScoresZero ==
  (EmptyInput /\ AllNamesValid) =>
    /\ pc # "raised"
    /\ \A key \in DOMAIN result : result[key] = Score(Zero, Zero, Zero)
    /\ pc = "returned" =>
         /\ DOMAIN returned[1] = Range(rouge_types)
         /\ \A key \in DOMAIN returned[1] : returned[1][key] = Score(Zero, Zero, Zero)

====
